---- MODULE Spec2Model ----
(***************************************************************************)
(* Verification model of ml-onnx-web: the detection post-processing        *)
(* pipeline (utils.js: parseYolo, iou, nonMaxSuppression) and the          *)
(* scheduling of inference calls in the two demo components                *)
(* (App.js: OnnxObjectDetectionDemo, OnnxYoloSegDemo.jsx).                 *)
(*                                                                         *)
(* Three specifications share the variables:                               *)
(*   Spec       the event handlers of the two components, one JavaScript   *)
(*              task (the code between two awaits) per action;             *)
(*   SpecNMS    nonMaxSuppression, one loop iteration per action, on       *)
(*              candidate lists decoded by parseYolo (utils.js) or built   *)
(*              by the segmentation decoder (OnnxYoloSegDemo.jsx);         *)
(*   SpecParse  parseYolo on small output tensors.                         *)
(*                                                                         *)
(* Numbers.  The floats are exact fixed-point integers: a tensor value or   *)
(* a confidence threshold v stands for v/One, a box coordinate for         *)
(* v/(2*One) (so that cx - w/2 is exact), a score for v/(One*One) (so that *)
(* objectness * class score is exact).  NaN stands for the NaN that        *)
(* arithmetic on an out-of-range (undefined) read produces.  IoU           *)
(* thresholds are rationals n/ThrDen.                                      *)
(***************************************************************************)
EXTENDS Integers, Sequences, FiniteSets, TLC

VARIABLES
  \* ---- component state (React refs and state) ----
  demo,              \* "det": App.js, "seg": OnnxYoloSegDemo.jsx
  session,           \* useState session: FALSE = null
  busy,              \* useState busy (disables the still-image button)
  camRunningRef,     \* camRunningRef.current
  fileRunningRef,    \* fileRunningRef.current (det only)
  inferInFlightRef,  \* inferInFlightRef.current, the single-slot guard
  rafCallbacks,      \* number of scheduled loopCamera animation-frame callbacks
  rafTracked,        \* TRUE iff the callback rafRef.current names is still scheduled
  fileRafCallbacks,  \* same for loopFileVideo / fileRafRef
  fileRafTracked,
  camGum,            \* startCamera invocations suspended at await getUserMedia
  camPlay,           \* startCamera invocations suspended at await video.play()
  filePlay,          \* startFileDetection invocations suspended at await v.play()
  runs,              \* session.run calls not yet settled, by caller
  \* ---- history of the loops (observers, never read by the handlers) ----
  tickOutcome,       \* what the last loop tick did
  ticksFree,         \* loop ticks that found the guard free and took it
  loopRuns,          \* session.run calls started by loop ticks
  lastFrame,         \* what the step just taken did after a settled session.run
  stopped,           \* modes: the loops ("cam", "file") stopped since their
                     \* start function was last invoked; kept only when on
  \* ---- nonMaxSuppression ----
  nmsPc,             \* "idle" | "call" | "loop" | "done"
  impl,              \* "utils": utils.js, "seg": OnnxYoloSegDemo.jsx
  tensorIn,          \* the output tensor the candidates were decoded from
  argArray,          \* the caller's array object (sorted and shifted in place)
  detections,        \* the local variable detections
  keep,              \* the local array keep
  iouThreshold,      \* numerator of the IoU threshold, over ThrDen
  maxDet,
  pass,              \* 1: first application, 2: applied to its own output
  candidates,        \* the candidate list as handed to the first application
  out1,              \* value returned by the first application
  \* ---- parseYolo ----
  logical,           \* the logical detections: rows (anchors) of attributes
  confThresh,        \* confidence threshold, in 1/One
  parsed,            \* per tensor layout of logical: what parseYolo did with it
  \* ---- the decoder of OnnxYoloSegDemo.jsx ----
  detOut,            \* results[session.outputNames[0]]: dims and data
  segDets,           \* per caller: the array dets its decoding loop built
  \* ---- letterbox and the drawing of the results ----
  geoPc,             \* "idle" | "frame" | "mapped" | "drawn"
  path,              \* "det": utils.js letterbox and drawDetectionsOnSource,
                     \* "seg": utils.js letterbox and drawYoloSegMasksCropped,
                     \* "keys": utils_keys.js letterbox
  source,            \* the source image or frame: its width and height
  newSize,           \* the model input size
  lb,                \* the object letterbox returned
  keptDet,           \* a kept detection, in model-input space
  unmapped,          \* the corners drawDetectionsOnSource draws
  inverse,           \* ratio, dw, dh of drawYoloSegMasksCropped
  crop               \* sx, sy, sw, sh of drawYoloSegMasksCropped

appVars == <<demo, session, busy, camRunningRef, fileRunningRef, inferInFlightRef,
             rafCallbacks, rafTracked, fileRafCallbacks, fileRafTracked,
             camGum, camPlay, filePlay, runs, tickOutcome, ticksFree, loopRuns,
             lastFrame, stopped>>
nmsVars == <<nmsPc, impl, tensorIn, argArray, detections, keep, iouThreshold,
             maxDet, pass, candidates, out1>>
parseVars == <<logical, confThresh, parsed, detOut, segDets>>
geoVars == <<geoPc, path, source, newSize, lb, keptDet, unmapped, inverse, crop>>
vars == <<appVars, nmsVars, parseVars, geoVars>>

(***************************************************************************)
(* Bounds of the model.                                                    *)
(***************************************************************************)
MaxStarts == 2
MaxRuns == 2
MaxTicks == 2
MaxCallbacks == 2

(***************************************************************************)
(* Part 1.  parseYolo (utils.js).                                          *)
(***************************************************************************)
One == 4
NaN == -1000000
InputSize == 64
DefaultConfThreshold == 1
MaxAnchors == 6

IsNaN(v) == v = NaN
Add(a, b) == IF IsNaN(a) \/ IsNaN(b) THEN NaN ELSE a + b
Sub(a, b) == IF IsNaN(a) \/ IsNaN(b) THEN NaN ELSE a - b
Mul(a, b) == IF IsNaN(a) \/ IsNaN(b) THEN NaN ELSE a * b
\* a > b and a < b of two numbers: false when either is NaN.
Gt(a, b) == ~IsNaN(a) /\ ~IsNaN(b) /\ a > b
Lt(a, b) == ~IsNaN(a) /\ ~IsNaN(b) /\ a < b
\* Math.max: NaN when an argument is NaN.
MathMax(a, b) == IF IsNaN(a) \/ IsNaN(b) THEN NaN ELSE IF a >= b THEN a ELSE b

\* The layout chosen with >= in place of >.
Layout_GreaterOrEqual(dims) ==
  IF Len(dims) = 3
    THEN IF dims[2] >= dims[3]
           THEN [ok |-> TRUE, numPred |-> dims[2], stride |-> dims[3], transposed |-> FALSE]
           ELSE [ok |-> TRUE, numPred |-> dims[3], stride |-> dims[2], transposed |-> TRUE]
    ELSE IF Len(dims) = 2
      THEN [ok |-> TRUE, numPred |-> dims[1], stride |-> dims[2], transposed |-> FALSE]
      ELSE [ok |-> FALSE, numPred |-> 0, stride |-> 0, transposed |-> FALSE]

\* The layout without the throw: any other rank is taken as an empty tensor.
Layout_RankUnchecked(dims) ==
  IF Len(dims) = 3
    THEN IF dims[2] > dims[3]
           THEN [ok |-> TRUE, numPred |-> dims[2], stride |-> dims[3], transposed |-> FALSE]
           ELSE [ok |-> TRUE, numPred |-> dims[3], stride |-> dims[2], transposed |-> TRUE]
    ELSE IF Len(dims) = 2
      THEN [ok |-> TRUE, numPred |-> dims[1], stride |-> dims[2], transposed |-> FALSE]
      ELSE [ok |-> TRUE, numPred |-> 0, stride |-> 0, transposed |-> FALSE]

\* numPred, stride and transposed as parseYolo sets them from output.dims;
\* ok = FALSE: the throw for a rank other than 2 and 3.
Layout(dims) ==
  IF Len(dims) = 3
    THEN IF dims[2] > dims[3]
           THEN [ok |-> TRUE, numPred |-> dims[2], stride |-> dims[3], transposed |-> FALSE]
           ELSE [ok |-> TRUE, numPred |-> dims[3], stride |-> dims[2], transposed |-> TRUE]
    ELSE IF Len(dims) = 2
      THEN [ok |-> TRUE, numPred |-> dims[1], stride |-> dims[2], transposed |-> FALSE]
      ELSE [ok |-> FALSE, numPred |-> 0, stride |-> 0, transposed |-> FALSE]

\* const likelyV8V11 = (stride === 84) || (stride !== 85)
likelyV8V11(stride) == (stride = 84) \/ (stride # 85)

\* getAt with the transposed index computed from the stride.
getAt_StrideIndex(data, lay, i, k) ==
  LET idx == IF lay.transposed THEN k * lay.stride + i ELSE i * lay.stride + k
  IN  IF idx < Len(data) THEN data[idx + 1] ELSE NaN

\* getAt(i, k); data is 0-indexed in the code, an index past the end reads
\* undefined, which the arithmetic that follows turns into NaN.
getAt(data, lay, i, k) ==
  LET idx == IF lay.transposed THEN k * lay.numPred + i ELSE i * lay.stride + k
  IN  IF idx < Len(data) THEN data[idx + 1] ELSE NaN

\* The class scan: for (c = lo; c < hi; c++) { s = getAt(i, base + c);
\* if (s > score) { score = s; bestCls = c } }, from acc.  The range is run as
\* its two halves, one after the other (left.cls < hi always holds: the test
\* makes the first half be evaluated before the second is entered).
RECURSIVE ScanClasses(_, _, _, _, _, _, _)
ScanClasses(data, lay, i, base, lo, hi, acc) ==
  IF lo >= hi THEN acc
  ELSE IF hi = lo + 1
    THEN LET sc == getAt(data, lay, i, base + lo)
         IN  IF Gt(sc, acc.score) THEN [score |-> sc, cls |-> lo] ELSE acc
    ELSE LET mid == (lo + hi) \div 2
             left == ScanClasses(data, lay, i, base, lo, mid, acc)
         IN  IF left.cls < hi THEN ScanClasses(data, lay, i, base, mid, hi, left)
             ELSE left

\* score and bestCls of anchor i (lines 128-145); the score in 1/(One*One).
AnchorScore(data, lay, i) ==
  IF likelyV8V11(lay.stride)
    THEN LET b == ScanClasses(data, lay, i, 4, 0, lay.stride - 4, [score |-> 0, cls |-> -1])
         IN  [score |-> Mul(b.score, One), cls |-> b.cls]
    ELSE LET obj == getAt(data, lay, i, 4)
             b == ScanClasses(data, lay, i, 5, 0, lay.stride - 5, [score |-> 0, cls |-> -1])
         IN  [score |-> Mul(obj, b.score), cls |-> b.cls]

\* The candidate parseYolo builds for anchor i; coordinates in 1/(2*One).
AnchorBox(data, lay, i) ==
  LET cx == getAt(data, lay, i, 0)
      cy == getAt(data, lay, i, 1)
      w == getAt(data, lay, i, 2)
      h == getAt(data, lay, i, 3)
      sc == AnchorScore(data, lay, i)
  IN  [x1 |-> Sub(Mul(2, cx), w), y1 |-> Sub(Mul(2, cy), h),
       x2 |-> Add(Mul(2, cx), w), y2 |-> Add(Mul(2, cy), h),
       score |-> sc.score, cls |-> sc.cls]

\* if (score < confThresh) continue, read as score <= confThresh.
Discarded_AtThreshold(score, conf) == ~Gt(score, Mul(conf, One))

\* if (score < confThresh) continue
Discarded(score, conf) == Lt(score, Mul(conf, One))

\* The anchor loop: the candidates pushed for anchors lo .. hi-1, in order.
\* The range is run as its two halves, one after the other.
RECURSIVE Collect(_, _, _, _, _)
Collect(data, lay, conf, lo, hi) ==
  IF lo >= hi THEN <<>>
  ELSE IF hi = lo + 1
    THEN LET d == AnchorBox(data, lay, lo)
         IN  IF Discarded(d.score, conf) THEN <<>> ELSE <<d>>
    ELSE LET mid == (lo + hi) \div 2
         IN  Collect(data, lay, conf, lo, mid) \o Collect(data, lay, conf, mid, hi)

\* dets.reduce((m, d) => Math.max(m, d.x2, d.y2), 0) over dets[lo .. hi-1];
\* the range is run as its two halves (Math.max is associative, and 0 is where
\* the reduction starts).
RECURSIVE MaxCoord(_, _, _)
MaxCoord(dets, lo, hi) ==
  IF lo >= hi THEN 0
  ELSE IF hi = lo + 1
    THEN MathMax(MathMax(0, dets[lo].x2), dets[lo].y2)
    ELSE LET mid == (lo + hi) \div 2
         IN  MathMax(MaxCoord(dets, lo, mid), MaxCoord(dets, mid, hi))

ScaleBox(d, size) ==
  [d EXCEPT !.x1 = Mul(@, size), !.y1 = Mul(@, size),
            !.x2 = Mul(@, size), !.y2 = Mul(@, size)]

\* The correction decided for each candidate on its own coordinates.
Normalize_PerCandidate(dets, size) ==
  [j \in 1..Len(dets) |->
     IF ~IsNaN(MathMax(dets[j].x2, dets[j].y2)) /\ MathMax(dets[j].x2, dets[j].y2) <= 4 * One
       THEN ScaleBox(dets[j], size) ELSE dets[j]]

\* if (maxCoord <= 2.0) scale every candidate by inputSize (2.0 is 4*One in
\* coordinate units; NaN <= 2.0 is false).
Normalize(dets, size) ==
  LET maxCoord == MaxCoord(dets, 1, Len(dets) + 1)
  IN  IF ~IsNaN(maxCoord) /\ maxCoord <= 4 * One
        THEN [j \in 1..Len(dets) |-> ScaleBox(dets[j], size)]
        ELSE dets

\* parseYolo(output, confThresh, inputSize): the value returned (dets), or
\* threw, with the locals the claims speak of (the layout, the branch, and
\* dets as collected before the correction).
parseYolo(out, conf, size) ==
  LET lay == Layout(out.dims)
      collected == Collect(out.data, lay, conf, 0, lay.numPred)
  IN  IF ~lay.ok
        THEN [threw |-> TRUE, dets |-> <<>>, collected |-> <<>>, numPred |-> 0,
              stride |-> 0, transposed |-> FALSE, likelyV8V11 |-> FALSE]
        ELSE [threw |-> FALSE, dets |-> Normalize(collected, size),
              collected |-> collected, numPred |-> lay.numPred, stride |-> lay.stride,
              transposed |-> lay.transposed, likelyV8V11 |-> likelyV8V11(lay.stride)]

(***************************************************************************)
(* Part 2.  The components' event handlers.                                *)
(***************************************************************************)
Callers == {"image", "cam", "file"}

TotalRuns == runs["image"] + runs["cam"] + runs["file"]
FrameRuns == runs["cam"] + runs["file"]

\* inferOneVideoFrame without the assignment that takes the guard.
inferOneVideoFrame_NoAcquire(inFlight, zeroSize) ==
  IF inFlight
    THEN [inFlight |-> TRUE, run |-> FALSE, entered |-> FALSE]
    ELSE IF zeroSize
      THEN [inFlight |-> FALSE, run |-> FALSE, entered |-> TRUE]
      ELSE [inFlight |-> FALSE, run |-> TRUE, entered |-> TRUE]

\* The synchronous prefix of inferOneVideoFrame, up to await session.run.
\* inFlight: the guard on entry; zeroSize: video.videoWidth or videoHeight is 0.
inferOneVideoFrame(inFlight, zeroSize) ==
  IF inFlight
    THEN [inFlight |-> TRUE, run |-> FALSE, entered |-> FALSE]
    ELSE IF zeroSize
      THEN [inFlight |-> FALSE, run |-> FALSE, entered |-> TRUE]
      ELSE [inFlight |-> TRUE, run |-> TRUE, entered |-> TRUE]

\* OnnxYoloSegDemo.jsx: the same prefix, without the zero-size early return.
Seg_inferOneVideoFrame(inFlight) ==
  IF inFlight
    THEN [inFlight |-> TRUE, run |-> FALSE, entered |-> FALSE]
    ELSE [inFlight |-> TRUE, run |-> TRUE, entered |-> TRUE]

LoopResult(resched, inFlight, r, outcome) ==
  [resched |-> resched, inFlight |-> inFlight, run |-> r.run,
   entered |-> r.entered, outcome |-> outcome]

NoCall == [run |-> FALSE, entered |-> FALSE]

\* One call of loopCamera.  ready: video.readyState >= 2; due: the throttle
\* interval has elapsed.
loopCamera(running, ready, due, zeroSize, inFlight) ==
  IF ~running THEN LoopResult(FALSE, inFlight, NoCall, "notRunning")
  ELSE IF ~ready THEN LoopResult(TRUE, inFlight, NoCall, "notReady")
  ELSE IF due /\ ~inFlight
    THEN LET r == inferOneVideoFrame(inFlight, zeroSize)
         IN  LoopResult(TRUE, r.inFlight, r, IF r.run THEN "started" ELSE "zeroSize")
    ELSE LoopResult(TRUE, inFlight, NoCall, IF due THEN "guardHeld" ELSE "throttled")

\* One call of loopFileVideo.
loopFileVideo(running, ready, due, zeroSize, inFlight) ==
  IF ~running THEN LoopResult(FALSE, inFlight, NoCall, "notRunning")
  ELSE IF ~ready THEN LoopResult(TRUE, inFlight, NoCall, "notReady")
  ELSE IF due /\ ~inFlight
    THEN LET r == inferOneVideoFrame(inFlight, zeroSize)
         IN  LoopResult(TRUE, r.inFlight, r, IF r.run THEN "started" ELSE "zeroSize")
    ELSE LoopResult(TRUE, inFlight, NoCall, IF due THEN "guardHeld" ELSE "throttled")

\* OnnxYoloSegDemo.jsx: one call of loopCamera.
Seg_loopCamera(running, ready, due, inFlight) ==
  IF ~running THEN LoopResult(FALSE, inFlight, NoCall, "notRunning")
  ELSE IF ~ready THEN LoopResult(TRUE, inFlight, NoCall, "notReady")
  ELSE IF due /\ ~inFlight
    THEN LET r == Seg_inferOneVideoFrame(inFlight)
         IN  LoopResult(TRUE, r.inFlight, r, "started")
    ELSE LoopResult(TRUE, inFlight, NoCall, IF due THEN "guardHeld" ELSE "throttled")

\* The effect of one loop call r by caller who on the guard, the pending runs
\* and the observers.  The counters are capped by MaxTicks and MaxRuns.
LoopEffect(who, r) ==
  /\ r.entered => ticksFree < MaxTicks
  /\ r.run => TotalRuns < MaxRuns
  /\ inferInFlightRef' = r.inFlight
  /\ runs' = IF r.run THEN [runs EXCEPT ![who] = @ + 1] ELSE runs
  /\ tickOutcome' = r.outcome
  /\ ticksFree' = IF r.entered THEN ticksFree + 1 ELSE ticksFree
  /\ loopRuns' = IF r.run THEN loopRuns + 1 ELSE loopRuns

\* lastFrame after a step in which no session.run settled.
NoFrame ==
  [caller |-> "none", rank |-> -1, rejected |-> FALSE, threw |-> FALSE,
   suppressed |-> FALSE, drawn |-> FALSE, message |-> "none"]

\* What session.run settles with: a rejection, or the output tensor
\* results[session.outputNames[0]], of rank 3 or of rank 4.
RunResults ==
  { [rejected |-> TRUE, out |-> [dims |-> <<>>, data |-> <<>>]] }
  \cup { [rejected |-> FALSE, out |-> [dims |-> d, data |-> <<16, 20, 32, 40, 4, 1>>]] :
           d \in { <<1, 6, 1>>, <<1, 1, 1, 6>> } }

\* App.js, the code after await session.run in runDetection ("image") and in
\* inferOneVideoFrame ("cam", "file"): parseYolo, nonMaxSuppression and
\* drawDetectionsOnSource in the try block, the report in the catch block.
\* runDetection also reports the number of detections.
AfterRun(who, res) ==
  LET p == parseYolo(res.out, DefaultConfThreshold, InputSize)
      failed == res.rejected \/ p.threw
  IN  [caller |-> who,
       rank |-> IF res.rejected THEN -1 ELSE Len(res.out.dims),
       rejected |-> res.rejected,
       threw |-> ~res.rejected /\ p.threw,
       suppressed |-> ~failed,
       drawn |-> ~failed,
       message |-> IF failed THEN "failed"
                   ELSE IF who = "image" THEN "detections" ELSE "none"]

\* OnnxYoloSegDemo.jsx, the code after await session.run: ok = FALSE when
\* session.run rejects or the try block throws.  runSegmentationOnImage
\* reports either way; inferOneVideoFrame only logs to the console.
Seg_AfterRun(who, ok) ==
  [caller |-> who, rank |-> -1, rejected |-> ~ok, threw |-> FALSE,
   suppressed |-> ok, drawn |-> ok,
   message |-> IF who = "image" THEN (IF ok THEN "detections" ELSE "failed")
               ELSE "none"]

UNCHANGED_nmsParse == UNCHANGED <<nmsVars, parseVars, geoVars>>

\* stopped after stopCamera ("cam") or stopFileDetection ("file") has run, and
\* after startCamera or startFileDetection has been invoked.
AfterStop(mode) ==
  IF stopped.on THEN [stopped EXCEPT !.modes = @ \cup {mode}] ELSE stopped
AfterStart(mode) ==
  IF stopped.on THEN [stopped EXCEPT !.modes = @ \ {mode}] ELSE stopped

\* loadOnnxModelFromFile, for the first model loaded (a later load makes
\* another session).
loadOnnxModelFromFile ==
  /\ ~session
  /\ ~busy
  /\ session' = TRUE
  /\ UNCHANGED <<demo, busy, camRunningRef, fileRunningRef, inferInFlightRef,
                 rafCallbacks, rafTracked, fileRafCallbacks, fileRafTracked,
                 camGum, camPlay, filePlay, runs, tickOutcome, ticksFree, loopRuns>>
  /\ UNCHANGED_nmsParse
  /\ UNCHANGED stopped
  /\ lastFrame' = NoFrame

\* runDetection up to await session.run; the button is disabled while busy.
runDetection ==
  /\ demo = "det"
  /\ ~busy
  /\ session
  /\ ~(camRunningRef \/ fileRunningRef)
  /\ TotalRuns < MaxRuns
  /\ busy' = TRUE
  /\ inferInFlightRef' = TRUE
  /\ runs' = [runs EXCEPT !["image"] = @ + 1]
  /\ UNCHANGED <<demo, session, camRunningRef, fileRunningRef,
                 rafCallbacks, rafTracked, fileRafCallbacks, fileRafTracked,
                 camGum, camPlay, filePlay, tickOutcome, ticksFree, loopRuns>>
  /\ UNCHANGED_nmsParse
  /\ UNCHANGED stopped
  /\ lastFrame' = NoFrame

\* runDetection after await session.run: try or catch, then finally.
runDetectionSettled ==
  /\ demo = "det"
  /\ runs["image"] > 0
  /\ runs' = [runs EXCEPT !["image"] = @ - 1]
  /\ \E res \in RunResults : lastFrame' = AfterRun("image", res)
  /\ inferInFlightRef' = FALSE
  /\ busy' = FALSE
  /\ UNCHANGED <<demo, session, camRunningRef, fileRunningRef,
                 rafCallbacks, rafTracked, fileRafCallbacks, fileRafTracked,
                 camGum, camPlay, filePlay, tickOutcome, ticksFree, loopRuns>>
  /\ UNCHANGED_nmsParse
  /\ UNCHANGED stopped

\* inferOneVideoFrame after await session.run with the release of the guard at
\* the end of the try block instead of in a finally block.
inferOneVideoFrameSettled_NoFinally ==
  /\ demo = "det"
  /\ \E who \in {"cam", "file"} :
       /\ runs[who] > 0
       /\ runs' = [runs EXCEPT ![who] = @ - 1]
       /\ \E res \in RunResults :
            /\ lastFrame' = AfterRun(who, res)
            /\ inferInFlightRef' = IF AfterRun(who, res).message = "failed"
                                     THEN inferInFlightRef ELSE FALSE
  /\ UNCHANGED <<demo, session, busy, camRunningRef, fileRunningRef,
                 rafCallbacks, rafTracked, fileRafCallbacks, fileRafTracked,
                 camGum, camPlay, filePlay, tickOutcome, ticksFree, loopRuns>>
  /\ UNCHANGED_nmsParse
  /\ UNCHANGED stopped

\* inferOneVideoFrame after await session.run: try or catch, then finally.
inferOneVideoFrameSettled ==
  /\ demo = "det"
  /\ \E who \in {"cam", "file"} :
       /\ runs[who] > 0
       /\ runs' = [runs EXCEPT ![who] = @ - 1]
       /\ \E res \in RunResults : lastFrame' = AfterRun(who, res)
  /\ inferInFlightRef' = FALSE
  /\ UNCHANGED <<demo, session, busy, camRunningRef, fileRunningRef,
                 rafCallbacks, rafTracked, fileRafCallbacks, fileRafTracked,
                 camGum, camPlay, filePlay, tickOutcome, ticksFree, loopRuns>>
  /\ UNCHANGED_nmsParse
  /\ UNCHANGED stopped

\* startCamera up to await getUserMedia.
startCamera ==
  /\ demo = "det"
  /\ session
  /\ ~camRunningRef
  /\ ~fileRunningRef
  /\ camGum + camPlay < MaxStarts
  /\ camGum' = camGum + 1
  /\ UNCHANGED <<demo, session, busy, camRunningRef, fileRunningRef, inferInFlightRef,
                 rafCallbacks, rafTracked, fileRafCallbacks, fileRafTracked,
                 camPlay, filePlay, runs, tickOutcome, ticksFree, loopRuns>>
  /\ UNCHANGED_nmsParse
  /\ stopped' = AfterStart("cam")
  /\ lastFrame' = NoFrame

\* startCamera from getUserMedia's settlement to await video.play(), or to
\* the catch block.
startCameraGotStream ==
  /\ demo = "det"
  /\ camGum > 0
  /\ camGum' = camGum - 1
  /\ \E ok \in BOOLEAN : camPlay' = IF ok THEN camPlay + 1 ELSE camPlay
  /\ UNCHANGED <<demo, session, busy, camRunningRef, fileRunningRef, inferInFlightRef,
                 rafCallbacks, rafTracked, fileRafCallbacks, fileRafTracked,
                 filePlay, runs, tickOutcome, ticksFree, loopRuns>>
  /\ UNCHANGED_nmsParse
  /\ UNCHANGED stopped
  /\ lastFrame' = NoFrame

\* startCamera from video.play()'s fulfilment on: cancel the tracked frame
\* callback, set camRunningRef, call loopCamera.
startCameraPlaying ==
  /\ demo = "det"
  /\ camPlay > 0
  /\ camPlay' = camPlay - 1
  /\ camRunningRef' = TRUE
  /\ \E ready, due, zeroSize \in BOOLEAN :
       LET r == loopCamera(TRUE, ready, due, zeroSize, inferInFlightRef)
           left == IF rafTracked THEN rafCallbacks - 1 ELSE rafCallbacks
       IN  /\ LoopEffect("cam", r)
           /\ rafCallbacks' = IF r.resched THEN left + 1 ELSE left
           /\ rafTracked' = r.resched
  /\ UNCHANGED <<demo, session, busy, fileRunningRef,
                 fileRafCallbacks, fileRafTracked, camGum, filePlay>>
  /\ UNCHANGED_nmsParse
  /\ UNCHANGED stopped
  /\ lastFrame' = NoFrame

\* startCamera: video.play() rejected, the catch block.
startCameraPlayFailed ==
  /\ demo = "det"
  /\ camPlay > 0
  /\ camPlay' = camPlay - 1
  /\ UNCHANGED <<demo, session, busy, camRunningRef, fileRunningRef, inferInFlightRef,
                 rafCallbacks, rafTracked, fileRafCallbacks, fileRafTracked,
                 camGum, filePlay, runs, tickOutcome, ticksFree, loopRuns>>
  /\ UNCHANGED_nmsParse
  /\ UNCHANGED stopped
  /\ lastFrame' = NoFrame

\* stopCamera.
stopCamera ==
  /\ demo = "det"
  /\ camRunningRef' = FALSE
  /\ rafCallbacks' = IF rafTracked THEN rafCallbacks - 1 ELSE rafCallbacks
  /\ rafTracked' = FALSE
  /\ UNCHANGED <<demo, session, busy, fileRunningRef, inferInFlightRef,
                 fileRafCallbacks, fileRafTracked,
                 camGum, camPlay, filePlay, runs, tickOutcome, ticksFree, loopRuns>>
  /\ UNCHANGED_nmsParse
  /\ stopped' = AfterStop("cam")
  /\ lastFrame' = NoFrame

\* An animation frame runs a scheduled loopCamera callback.
loopCameraFrame ==
  /\ demo = "det"
  /\ rafCallbacks > 0
  /\ \E tracked \in BOOLEAN :
       /\ tracked => rafTracked
       /\ ~tracked => rafCallbacks > (IF rafTracked THEN 1 ELSE 0)
       /\ \E ready, due, zeroSize \in BOOLEAN :
            LET r == loopCamera(camRunningRef, ready, due, zeroSize, inferInFlightRef)
            IN  /\ LoopEffect("cam", r)
                /\ rafCallbacks' = IF r.resched THEN rafCallbacks ELSE rafCallbacks - 1
                /\ rafTracked' = IF r.resched THEN TRUE
                                 ELSE IF tracked THEN FALSE ELSE rafTracked
  /\ UNCHANGED <<demo, session, busy, camRunningRef, fileRunningRef,
                 fileRafCallbacks, fileRafTracked, camGum, camPlay, filePlay>>
  /\ UNCHANGED_nmsParse
  /\ UNCHANGED stopped
  /\ lastFrame' = NoFrame

\* startFileDetection up to await v.play().
startFileDetection ==
  /\ demo = "det"
  /\ session
  /\ ~fileRunningRef
  /\ ~camRunningRef
  /\ filePlay < MaxStarts
  /\ filePlay' = filePlay + 1
  /\ UNCHANGED <<demo, session, busy, camRunningRef, fileRunningRef, inferInFlightRef,
                 rafCallbacks, rafTracked, fileRafCallbacks, fileRafTracked,
                 camGum, camPlay, runs, tickOutcome, ticksFree, loopRuns>>
  /\ UNCHANGED_nmsParse
  /\ stopped' = AfterStart("file")
  /\ lastFrame' = NoFrame

\* startFileDetection from v.play()'s fulfilment on.
startFileDetectionPlaying ==
  /\ demo = "det"
  /\ filePlay > 0
  /\ filePlay' = filePlay - 1
  /\ fileRunningRef' = TRUE
  /\ \E ready, due, zeroSize \in BOOLEAN :
       LET r == loopFileVideo(TRUE, ready, due, zeroSize, inferInFlightRef)
           left == IF fileRafTracked THEN fileRafCallbacks - 1 ELSE fileRafCallbacks
       IN  /\ LoopEffect("file", r)
           /\ fileRafCallbacks' = IF r.resched THEN left + 1 ELSE left
           /\ fileRafTracked' = r.resched
  /\ UNCHANGED <<demo, session, busy, camRunningRef,
                 rafCallbacks, rafTracked, camGum, camPlay>>
  /\ UNCHANGED_nmsParse
  /\ UNCHANGED stopped
  /\ lastFrame' = NoFrame

\* startFileDetection: v.play() rejected, the catch block.
startFileDetectionFailed ==
  /\ demo = "det"
  /\ filePlay > 0
  /\ filePlay' = filePlay - 1
  /\ UNCHANGED <<demo, session, busy, camRunningRef, fileRunningRef, inferInFlightRef,
                 rafCallbacks, rafTracked, fileRafCallbacks, fileRafTracked,
                 camGum, camPlay, runs, tickOutcome, ticksFree, loopRuns>>
  /\ UNCHANGED_nmsParse
  /\ UNCHANGED stopped
  /\ lastFrame' = NoFrame

\* stopFileDetection: the Stop button and the video's onended handler.
stopFileDetection ==
  /\ demo = "det"
  /\ fileRunningRef' = FALSE
  /\ fileRafCallbacks' = IF fileRafTracked THEN fileRafCallbacks - 1 ELSE fileRafCallbacks
  /\ fileRafTracked' = FALSE
  /\ UNCHANGED <<demo, session, busy, camRunningRef, inferInFlightRef,
                 rafCallbacks, rafTracked,
                 camGum, camPlay, filePlay, runs, tickOutcome, ticksFree, loopRuns>>
  /\ UNCHANGED_nmsParse
  /\ stopped' = AfterStop("file")
  /\ lastFrame' = NoFrame

\* onVideoFileChange: refused while the webcam runs, else stopFileDetection.
onVideoFileChange ==
  /\ ~camRunningRef
  /\ stopFileDetection

\* An animation frame runs a scheduled loopFileVideo callback.
loopFileVideoFrame ==
  /\ demo = "det"
  /\ fileRafCallbacks > 0
  /\ \E tracked \in BOOLEAN :
       /\ tracked => fileRafTracked
       /\ ~tracked => fileRafCallbacks > (IF fileRafTracked THEN 1 ELSE 0)
       /\ \E ready, due, zeroSize \in BOOLEAN :
            LET r == loopFileVideo(fileRunningRef, ready, due, zeroSize, inferInFlightRef)
            IN  /\ LoopEffect("file", r)
                /\ fileRafCallbacks' = IF r.resched THEN fileRafCallbacks
                                       ELSE fileRafCallbacks - 1
                /\ fileRafTracked' = IF r.resched THEN TRUE
                                     ELSE IF tracked THEN FALSE ELSE fileRafTracked
  /\ UNCHANGED <<demo, session, busy, camRunningRef, fileRunningRef,
                 rafCallbacks, rafTracked, camGum, camPlay, filePlay>>
  /\ UNCHANGED_nmsParse
  /\ UNCHANGED stopped
  /\ lastFrame' = NoFrame

\* OnnxYoloSegDemo.jsx: runSegmentationOnImage up to await session.run.
runSegmentationOnImage ==
  /\ demo = "seg"
  /\ ~busy
  /\ session
  /\ TotalRuns < MaxRuns
  /\ busy' = TRUE
  /\ runs' = [runs EXCEPT !["image"] = @ + 1]
  /\ UNCHANGED <<demo, session, camRunningRef, fileRunningRef, inferInFlightRef,
                 rafCallbacks, rafTracked, fileRafCallbacks, fileRafTracked,
                 camGum, camPlay, filePlay, tickOutcome, ticksFree, loopRuns>>
  /\ UNCHANGED_nmsParse
  /\ UNCHANGED stopped
  /\ lastFrame' = NoFrame

\* OnnxYoloSegDemo.jsx: runSegmentationOnImage after await session.run.
runSegmentationOnImageSettled ==
  /\ demo = "seg"
  /\ runs["image"] > 0
  /\ runs' = [runs EXCEPT !["image"] = @ - 1]
  /\ \E ok \in BOOLEAN : lastFrame' = Seg_AfterRun("image", ok)
  /\ busy' = FALSE
  /\ UNCHANGED <<demo, session, camRunningRef, fileRunningRef, inferInFlightRef,
                 rafCallbacks, rafTracked, fileRafCallbacks, fileRafTracked,
                 camGum, camPlay, filePlay, tickOutcome, ticksFree, loopRuns>>
  /\ UNCHANGED_nmsParse
  /\ UNCHANGED stopped

\* OnnxYoloSegDemo.jsx: startCamera up to await getUserMedia.
Seg_startCamera ==
  /\ demo = "seg"
  /\ session
  /\ ~camRunningRef
  /\ camGum + camPlay < MaxStarts
  /\ camGum' = camGum + 1
  /\ UNCHANGED <<demo, session, busy, camRunningRef, fileRunningRef, inferInFlightRef,
                 rafCallbacks, rafTracked, fileRafCallbacks, fileRafTracked,
                 camPlay, filePlay, runs, tickOutcome, ticksFree, loopRuns>>
  /\ UNCHANGED_nmsParse
  /\ stopped' = AfterStart("cam")
  /\ lastFrame' = NoFrame

\* OnnxYoloSegDemo.jsx: startCamera from video.play()'s fulfilment on (no
\* callback is cancelled here).
Seg_startCameraPlaying ==
  /\ demo = "seg"
  /\ camPlay > 0
  /\ rafCallbacks < MaxCallbacks
  /\ camPlay' = camPlay - 1
  /\ camRunningRef' = TRUE
  /\ \E ready, due \in BOOLEAN :
       LET r == Seg_loopCamera(TRUE, ready, due, inferInFlightRef)
       IN  /\ LoopEffect("cam", r)
           /\ rafCallbacks' = IF r.resched THEN rafCallbacks + 1 ELSE rafCallbacks
           /\ rafTracked' = (r.resched \/ rafTracked)
  /\ UNCHANGED <<demo, session, busy, fileRunningRef,
                 fileRafCallbacks, fileRafTracked, camGum, filePlay>>
  /\ UNCHANGED_nmsParse
  /\ UNCHANGED stopped
  /\ lastFrame' = NoFrame

\* OnnxYoloSegDemo.jsx: an animation frame runs a scheduled loopCamera callback.
Seg_loopCameraFrame ==
  /\ demo = "seg"
  /\ rafCallbacks > 0
  /\ \E tracked \in BOOLEAN :
       /\ tracked => rafTracked
       /\ ~tracked => rafCallbacks > (IF rafTracked THEN 1 ELSE 0)
       /\ \E ready, due \in BOOLEAN :
            LET r == Seg_loopCamera(camRunningRef, ready, due, inferInFlightRef)
            IN  /\ LoopEffect("cam", r)
                /\ rafCallbacks' = IF r.resched THEN rafCallbacks ELSE rafCallbacks - 1
                /\ rafTracked' = IF r.resched THEN TRUE
                                 ELSE IF tracked THEN FALSE ELSE rafTracked
  /\ UNCHANGED <<demo, session, busy, camRunningRef, fileRunningRef,
                 fileRafCallbacks, fileRafTracked, camGum, camPlay, filePlay>>
  /\ UNCHANGED_nmsParse
  /\ UNCHANGED stopped
  /\ lastFrame' = NoFrame

\* OnnxYoloSegDemo.jsx: startCamera from getUserMedia's settlement to await
\* video.play(), or to the catch block.
Seg_startCameraGotStream ==
  /\ demo = "seg"
  /\ camGum > 0
  /\ camGum' = camGum - 1
  /\ \E ok \in BOOLEAN : camPlay' = IF ok THEN camPlay + 1 ELSE camPlay
  /\ UNCHANGED <<demo, session, busy, camRunningRef, fileRunningRef, inferInFlightRef,
                 rafCallbacks, rafTracked, fileRafCallbacks, fileRafTracked,
                 filePlay, runs, tickOutcome, ticksFree, loopRuns>>
  /\ UNCHANGED_nmsParse
  /\ UNCHANGED stopped
  /\ lastFrame' = NoFrame

\* OnnxYoloSegDemo.jsx: startCamera, video.play() rejected, the catch block.
Seg_startCameraPlayFailed ==
  /\ demo = "seg"
  /\ camPlay > 0
  /\ camPlay' = camPlay - 1
  /\ UNCHANGED <<demo, session, busy, camRunningRef, fileRunningRef, inferInFlightRef,
                 rafCallbacks, rafTracked, fileRafCallbacks, fileRafTracked,
                 camGum, filePlay, runs, tickOutcome, ticksFree, loopRuns>>
  /\ UNCHANGED_nmsParse
  /\ UNCHANGED stopped
  /\ lastFrame' = NoFrame

\* OnnxYoloSegDemo.jsx: stopCamera.
Seg_stopCamera ==
  /\ demo = "seg"
  /\ camRunningRef' = FALSE
  /\ rafCallbacks' = IF rafTracked THEN rafCallbacks - 1 ELSE rafCallbacks
  /\ rafTracked' = FALSE
  /\ UNCHANGED <<demo, session, busy, fileRunningRef, inferInFlightRef,
                 fileRafCallbacks, fileRafTracked,
                 camGum, camPlay, filePlay, runs, tickOutcome, ticksFree, loopRuns>>
  /\ UNCHANGED_nmsParse
  /\ stopped' = AfterStop("cam")
  /\ lastFrame' = NoFrame

\* OnnxYoloSegDemo.jsx: inferOneVideoFrame after await session.run: try or
\* catch, then finally.
Seg_inferOneVideoFrameSettled ==
  /\ demo = "seg"
  /\ runs["cam"] > 0
  /\ runs' = [runs EXCEPT !["cam"] = @ - 1]
  /\ \E ok \in BOOLEAN : lastFrame' = Seg_AfterRun("cam", ok)
  /\ inferInFlightRef' = FALSE
  /\ UNCHANGED <<demo, session, busy, camRunningRef, fileRunningRef,
                 rafCallbacks, rafTracked, fileRafCallbacks, fileRafTracked,
                 camGum, camPlay, filePlay, tickOutcome, ticksFree, loopRuns>>
  /\ UNCHANGED_nmsParse
  /\ UNCHANGED stopped

\* The state of either component after construction (useRef / useState
\* initial values).
InitHandlers ==
  /\ session = FALSE
  /\ busy = FALSE
  /\ camRunningRef = FALSE
  /\ fileRunningRef = FALSE
  /\ inferInFlightRef = FALSE
  /\ rafCallbacks = 0
  /\ rafTracked = FALSE
  /\ fileRafCallbacks = 0
  /\ fileRafTracked = FALSE
  /\ camGum = 0
  /\ camPlay = 0
  /\ filePlay = 0
  /\ runs = [c \in Callers |-> 0]
  /\ tickOutcome = "none"
  /\ ticksFree = 0
  /\ loopRuns = 0
  /\ lastFrame = NoFrame

InitApp ==
  /\ InitHandlers
  /\ stopped = [on |-> FALSE, modes |-> {}]

IdleNms ==
  /\ nmsPc = "idle"
  /\ impl = "utils"
  /\ tensorIn = <<>>
  /\ argArray = <<>>
  /\ detections = <<>>
  /\ keep = <<>>
  /\ iouThreshold = 0
  /\ maxDet = 0
  /\ pass = 1
  /\ candidates = <<>>
  /\ out1 = <<>>

IdleSeg ==
  /\ detOut = <<>>
  /\ segDets = <<>>

IdleYolo ==
  /\ logical = <<>>
  /\ confThresh = 0
  /\ parsed = <<>>

IdleParse ==
  /\ IdleYolo
  /\ IdleSeg

IdleGeo ==
  /\ geoPc = "idle"
  /\ path = "det"
  /\ source = <<>>
  /\ newSize = 0
  /\ lb = <<>>
  /\ keptDet = <<>>
  /\ unmapped = <<>>
  /\ inverse = <<>>
  /\ crop = <<>>

Init ==
  /\ demo \in {"det", "seg"}
  /\ InitApp
  /\ IdleNms
  /\ IdleParse
  /\ IdleGeo

Next ==
  \/ loadOnnxModelFromFile
  \/ runDetection
  \/ runDetectionSettled
  \/ inferOneVideoFrameSettled
  \/ startCamera
  \/ startCameraGotStream
  \/ startCameraPlaying
  \/ startCameraPlayFailed
  \/ stopCamera
  \/ loopCameraFrame
  \/ startFileDetection
  \/ startFileDetectionPlaying
  \/ startFileDetectionFailed
  \/ stopFileDetection
  \/ onVideoFileChange
  \/ loopFileVideoFrame
  \/ runSegmentationOnImage
  \/ runSegmentationOnImageSettled
  \/ Seg_startCamera
  \/ Seg_startCameraGotStream
  \/ Seg_startCameraPlaying
  \/ Seg_startCameraPlayFailed
  \/ Seg_stopCamera
  \/ Seg_loopCameraFrame
  \/ Seg_inferOneVideoFrameSettled

Spec == Init /\ [][Next]_vars

\* The handlers with the stops and the start invocations recorded in stopped.
InitStop ==
  /\ demo \in {"det", "seg"}
  /\ InitHandlers
  /\ stopped = [on |-> TRUE, modes |-> {}]
  /\ IdleNms
  /\ IdleParse
  /\ IdleGeo

SpecStop == InitStop /\ [][Next]_vars

\* session.run settles: the promise a frame awaits is eventually fulfilled or
\* rejected, and the continuation of inferOneVideoFrame then runs.
SpecLive ==
  /\ Init
  /\ [][Next]_vars
  /\ WF_vars(inferOneVideoFrameSettled)
  /\ WF_vars(Seg_inferOneVideoFrameSettled)

(***************************************************************************)
(* Claims about the scheduling of inference calls (Spec).                  *)
(***************************************************************************)

\* C1: at most one session.run call is in flight at any time, in every
\* interleaving of the entry points that share the model session.
C1_AtMostOneRunInFlight == TotalRuns <= 1

C11_ShapeErrorFatal ==
  /\ [](\A d \in { <<>>, <<6>>, <<1, 1, 1, 6>>, <<1, 1, 1, 1, 6>> } :
          parseYolo([dims |-> d, data |-> <<16, 20, 32, 40, 4, 1>>],
                    DefaultConfThreshold, InputSize).threw)
  /\ []((lastFrame.caller \in Callers /\ demo = "det" /\ ~lastFrame.rejected
           /\ lastFrame.rank \notin {2, 3})
          => /\ lastFrame.threw
             /\ ~lastFrame.suppressed
             /\ ~lastFrame.drawn
             /\ lastFrame.message = "failed")
  /\ [][(demo = "det" /\ TotalRuns' < TotalRuns /\ lastFrame'.rank \notin {-1, 2, 3})
          => ~inferInFlightRef']_vars

\* C11 witness: a camera frame has just failed on a rank-4 tensor; the guard
\* is released and the camera loop is still scheduled.
C11_Witness ==
  /\ lastFrame.caller = "cam"
  /\ lastFrame.rank = 4
  /\ lastFrame.threw
  /\ lastFrame.message = "failed"
  /\ ~inferInFlightRef
  /\ camRunningRef
  /\ rafCallbacks > 0

\* C19: in every interleaving of startCamera, stopCamera, startFileDetection,
\* stopFileDetection and runDetection, the await points inside the start
\* actions included, camRunningRef and fileRunningRef are never both true, and
\* runDetection starts no inference while either is true.
C19_ModeExclusivity ==
  /\ [](demo = "det" => ~(camRunningRef /\ fileRunningRef))
  /\ [][(demo = "det" /\ runs'["image"] > runs["image"])
          => ~(camRunningRef \/ fileRunningRef)]_vars

\* C20: every run of inferOneVideoFrame that takes the in-flight guard
\* releases it on every exit path, provided session.run settles: the step in
\* which a frame's session.run settles (result drawn, inference rejected or
\* decoding thrown) leaves the guard released, the zero-size early return
\* leaves it released, and a pending frame always leads to a released guard,
\* so a failed frame does not keep later frames from being inferred.
C20_GuardRelease ==
  /\ [][(FrameRuns' < FrameRuns) => ~inferInFlightRef']_vars
  /\ [][(ticksFree' > ticksFree /\ tickOutcome' = "zeroSize") => ~inferInFlightRef']_vars
  /\ (FrameRuns > 0) ~> ~inferInFlightRef

\* C20 witness: the second frame the loops started, a frame of the video file,
\* has just failed in session.run; the guard it took is released, no run is
\* pending and the file loop is still scheduled.
C20_Witness ==
  /\ lastFrame.caller = "file"
  /\ lastFrame.rejected
  /\ lastFrame.message = "failed"
  /\ loopRuns = 2
  /\ ~inferInFlightRef
  /\ TotalRuns = 0
  /\ fileRunningRef
  /\ fileRafCallbacks > 0

\* C21: once stopCamera (stopFileDetection) has run, the camera loop (the
\* file-video loop) starts no further inference unless startCamera
\* (startFileDetection) is invoked again after that stop, also when the stop
\* ran while an earlier start was suspended at one of its awaits.
C21_StopIsFinal ==
  [][\A mode \in {"cam", "file"} :
       (runs'[mode] > runs[mode]) => mode \notin stopped.modes]_vars

(***************************************************************************)
(* The tensors parseYolo is applied to: a matrix of logical detections     *)
(* (one row of D attributes per anchor) laid out in each of the three      *)
(* shape families.                                                         *)
(***************************************************************************)
Layouts == {"2d", "rowMajor", "transposed"}

NumAnchors(lg) == Len(lg.rows)
NumAttrs(lg) == Len(lg.rows[1])

\* data[i*D + k] = rows[i][k]
RowMajorData(lg) ==
  LET N == NumAnchors(lg)
      D == NumAttrs(lg)
  IN  [j \in 1..(N * D) |-> lg.rows[((j - 1) \div D) + 1][((j - 1) % D) + 1]]

\* data[k*N + i] = rows[i][k]
TransposedData(lg) ==
  LET N == NumAnchors(lg)
      D == NumAttrs(lg)
  IN  [j \in 1..(N * D) |-> lg.rows[((j - 1) % N) + 1][((j - 1) \div N) + 1]]

TensorOf(lg, layout) ==
  CASE layout = "2d" -> [dims |-> <<NumAnchors(lg), NumAttrs(lg)>>, data |-> RowMajorData(lg)]
    [] layout = "rowMajor" ->
         [dims |-> <<1, NumAnchors(lg), NumAttrs(lg)>>, data |-> RowMajorData(lg)]
    [] layout = "transposed" ->
         [dims |-> <<1, NumAttrs(lg), NumAnchors(lg)>>, data |-> TransposedData(lg)]

\* Anchors <<cx, cy, w, h, class scores>> of a one-class model without
\* objectness: corners within 2.0, beyond 2.0, and with x2 = y2 = 2.0.
Rows5 == { <<2, 2, 2, 2, 4>>, <<12, 12, 8, 8, 2>>, <<4, 4, 8, 8, 1>> }
\* Two classes, no objectness.
Rows6 == { <<16, 20, 32, 40, 4, 1>>, <<12, 12, 24, 24, 0, 3>>,
           <<2, 2, 2, 2, 2, 2>>, <<4, 4, 8, 8, 0, 0>> }
\* <<cx, cy, w, h, objectness, class scores>> of a two-class model.
Rows7 == { <<12, 12, 8, 8, 2, 1, 4>>, <<4, 4, 4, 4, 4, 3, 0>>, <<2, 2, 2, 2, 1, 2, 2>> }
\* <<cx, cy, w, h, objectness, 80 class scores>>: class c scores sc.
Row85(cx, w, obj, c, sc) ==
  [k \in 1..85 |-> IF k \in {1, 2} THEN cx
                   ELSE IF k \in {3, 4} THEN w
                   ELSE IF k = 5 THEN obj
                   ELSE IF k = 6 + c THEN sc ELSE 0]
Rows85 == { Row85(12, 8, 2, 79, 4), Row85(4, 4, 4, 0, 3), Row85(2, 2, 3, 17, 1) }

RECURSIVE SeqsOf(_, _)
SeqsOf(S, n) ==
  IF n = 0 THEN { <<>> }
  ELSE { Append(q, x) : q \in SeqsOf(S, n - 1), x \in S }

Logicals ==
  { [rows |-> m, numClasses |-> 1, objectness |-> FALSE] :
      m \in UNION { SeqsOf(Rows5, n) : n \in 1..MaxAnchors } }
  \cup { [rows |-> m, numClasses |-> 2, objectness |-> FALSE] :
      m \in UNION { SeqsOf(Rows6, n) : n \in 1..2 } }
  \cup { [rows |-> m, numClasses |-> 2, objectness |-> TRUE] :
      m \in UNION { SeqsOf(Rows7, n) : n \in 1..2 } }
  \cup { [rows |-> m, numClasses |-> 80, objectness |-> TRUE] :
      m \in UNION { SeqsOf(Rows85, n) : n \in 1..2 } }

ConfThresholds == {0, 1, 2}

Pending == [threw |-> FALSE, dets |-> <<>>, collected |-> <<>>, numPred |-> -1,
            stride |-> -1, transposed |-> FALSE, likelyV8V11 |-> FALSE]

Decoded(l) == parsed[l].numPred # -1

InitParse ==
  /\ logical \in Logicals
  /\ confThresh \in ConfThresholds
  /\ parsed = [l \in Layouts |-> Pending]
  /\ IdleSeg

\* One call parseYolo(out, confThreshold, inputSize) on a layout of logical.
decode ==
  /\ \E l \in Layouts :
       /\ ~Decoded(l)
       /\ parsed' = [parsed EXCEPT ![l] = parseYolo(TensorOf(logical, l), confThresh, InputSize)]
  /\ UNCHANGED <<logical, confThresh, detOut, segDets>>
  /\ UNCHANGED <<appVars, nmsVars, geoVars>>

IdleApp ==
  /\ demo = "det"
  /\ InitApp

InitSpecParse == IdleApp /\ IdleNms /\ IdleGeo /\ InitParse

SpecParse == InitSpecParse /\ [][decode]_vars

(***************************************************************************)
(* Claims about parseYolo (SpecParse).                                     *)
(***************************************************************************)
Coords == {"x1", "y1", "x2", "y2"}

\* The element the claimed access reads for attribute k of anchor i.
ClaimedAt(t, transposedAccess, N, D, i, k) ==
  LET idx == IF transposedAccess THEN k * N + i ELSE i * D + k
  IN  IF idx < Len(t.data) THEN t.data[idx + 1] ELSE NaN

ClaimedLayout(l, p, t) ==
  LET A == t.dims[2]
      B == t.dims[3]
  IN  IF l = "2d"
        THEN p.numPred = t.dims[1] /\ p.stride = t.dims[2] /\ ~p.transposed
        ELSE IF A > B
          THEN p.numPred = A /\ p.stride = B /\ ~p.transposed
          ELSE p.numPred = B /\ p.stride = A /\ p.transposed

\* C7: a 3-D shape [1, A, B] is read row-major (data[i*D + k], N = A, D = B)
\* when A > B and transposed (data[k*N + i], D = A, N = B) otherwise, A = B
\* included; a 2-D shape [N, D] is read row-major; [1, 84, 8400] goes through
\* the transposed branch.  With threshold 0 every anchor is pushed, so the
\* access shows in the corners of the collected candidates.
C7_LayoutSelection ==
  /\ \A l \in Layouts :
       Decoded(l) =>
         LET p == parsed[l]
             t == TensorOf(logical, l)
         IN  /\ ~p.threw
             /\ ClaimedLayout(l, p, t)
             /\ confThresh = 0 =>
                  /\ Len(p.collected) = p.numPred
                  /\ \A i \in 0..(p.numPred - 1) :
                       LET cx == ClaimedAt(t, p.transposed, p.numPred, p.stride, i, 0)
                           cy == ClaimedAt(t, p.transposed, p.numPred, p.stride, i, 1)
                           w == ClaimedAt(t, p.transposed, p.numPred, p.stride, i, 2)
                           h == ClaimedAt(t, p.transposed, p.numPred, p.stride, i, 3)
                       IN  /\ p.collected[i + 1].x1 = Sub(Mul(2, cx), w)
                           /\ p.collected[i + 1].y1 = Sub(Mul(2, cy), h)
                           /\ p.collected[i + 1].x2 = Add(Mul(2, cx), w)
                           /\ p.collected[i + 1].y2 = Add(Mul(2, cy), h)
  /\ Layout(<<1, 84, 8400>>).ok
  /\ Layout(<<1, 84, 8400>>).transposed
  /\ Layout(<<1, 84, 8400>>).numPred = 8400
  /\ Layout(<<1, 84, 8400>>).stride = 84

\* C7 witness: a [1, D, N] tensor with D < N was decoded through the
\* transposed branch and candidates came out; so was a tensor with A = B.
C7_Witness ==
  /\ Decoded("transposed")
  /\ Decoded("rowMajor")
  /\ NumAttrs(logical) = NumAnchors(logical)
  /\ parsed["rowMajor"].transposed
  /\ parsed["transposed"].transposed
  /\ Len(parsed["transposed"].dets) > 0

\* C8 as stated: the [1, N, D] and the [1, D, N] layout of the same logical
\* detections decode to identical candidate lists.
C8_LayoutEquivalence ==
  (Decoded("rowMajor") /\ Decoded("transposed"))
    => parsed["rowMajor"].dets = parsed["transposed"].dets

\* C8 as amended: the two layouts decode to identical candidate lists whenever
\* there are more anchors than attributes (N > D), the case in which the shape
\* test tells the two layouts apart.
C8_LayoutEquivalenceMoreAnchors ==
  (Decoded("rowMajor") /\ Decoded("transposed")
     /\ NumAnchors(logical) > NumAttrs(logical))
    => /\ ~parsed["rowMajor"].transposed
       /\ parsed["transposed"].transposed
       /\ parsed["rowMajor"].dets = parsed["transposed"].dets

\* C8 witness: N > D, the row-major tensor went through the row-major branch,
\* the transposed one through the transposed branch, and the same non-empty
\* list came out of both.
C8_Witness ==
  /\ Decoded("rowMajor")
  /\ Decoded("transposed")
  /\ NumAnchors(logical) > NumAttrs(logical)
  /\ ~parsed["rowMajor"].transposed
  /\ parsed["transposed"].transposed
  /\ Len(parsed["rowMajor"].dets) >= 2
  /\ parsed["rowMajor"].dets = parsed["transposed"].dets

SetMax(S) == CHOOSE m \in S : \A x \in S : x <= m

\* The score and class the claimed heuristic assigns to a row of a model with
\* nc classes: the best class score, times the objectness when the row has
\* nc + 5 attributes.
ClaimedScore(row, nc) ==
  LET base == IF Len(row) = nc + 5 THEN 5 ELSE 4
      best == SetMax({0} \cup { row[base + c + 1] : c \in 0..(nc - 1) })
      first == IF best = 0 THEN -1
               ELSE CHOOSE c \in 0..(nc - 1) :
                      /\ row[base + c + 1] = best
                      /\ \A e \in 0..(c - 1) : row[base + e + 1] < best
  IN  [score |-> IF base = 5 THEN row[5] * best ELSE best * One, cls |-> first]

\* C9: a tensor with D = numClasses + 4 attributes is decoded as class scores
\* only, one with D = numClasses + 5 as objectness times the best class score,
\* whatever numClasses is.  (On the 2-D layout; with threshold 0 every anchor
\* is pushed.)
C9_AttributeHeuristic ==
  Decoded("2d") =>
    /\ parsed["2d"].likelyV8V11 = ~logical.objectness
    /\ confThresh = 0 =>
         \A i \in 1..NumAnchors(logical) :
           LET want == ClaimedScore(logical.rows[i], logical.numClasses)
           IN  /\ parsed["2d"].collected[i].score = want.score
               /\ parsed["2d"].collected[i].cls = want.cls

AllWithinTwo(dets) ==
  \A j \in 1..Len(dets) : \A f \in Coords :
    ~IsNaN(dets[j][f]) /\ dets[j][f] <= 4 * One

ClassBase(v8) == IF v8 THEN 4 ELSE 5
ClassCount(row, v8) == Len(row) - ClassBase(v8)
BestClassScore(row, v8) ==
  SetMax({ row[ClassBase(v8) + c + 1] : c \in 0..(ClassCount(row, v8) - 1) })
\* The final score of a row, in 1/(One*One): the maximum class score, times
\* the objectness in the objectness branch.
FinalScore(row, v8) ==
  IF v8 THEN BestClassScore(row, v8) * One ELSE row[5] * BestClassScore(row, v8)

\* The anchors (1-based) whose final score is >= the threshold, in order.
AnchorsAtOrAbove(lg, v8, conf) ==
  LET AtOrAbove(i) == FinalScore(lg.rows[i], v8) >= conf * One
  IN  SelectSeq([i \in 1..NumAnchors(lg) |-> i], AtOrAbove)

\* C17: parseYolo pushes a candidate for an anchor if and only if the
\* anchor's final score is >= the confidence threshold (a score equal to the
\* threshold is kept), the candidates are in anchor order, and each has the
\* corners cx -/+ w/2, cy -/+ h/2, the maximum class score (times the
\* objectness in the objectness branch) as its score and the index of that
\* maximum as its class.  (On the 2-D layout, the branch taken as the decoder
\* takes it, the candidates as collected before the normalization.)
C17_PerAnchorDecoding ==
  Decoded("2d") =>
    LET p == parsed["2d"]
        v8 == p.likelyV8V11
        kept == AnchorsAtOrAbove(logical, v8, confThresh)
    IN  /\ Len(p.collected) = Len(kept)
        /\ \A j \in 1..Len(kept) :
             LET row == logical.rows[kept[j]]
                 d == p.collected[j]
             IN  /\ d.x1 = 2 * row[1] - row[3]
                 /\ d.y1 = 2 * row[2] - row[4]
                 /\ d.x2 = 2 * row[1] + row[3]
                 /\ d.y2 = 2 * row[2] + row[4]
                 /\ d.score = FinalScore(row, v8)
                 /\ d.cls \in 0..(ClassCount(row, v8) - 1)
                 /\ row[ClassBase(v8) + d.cls + 1] = BestClassScore(row, v8)

\* C22: for every output tensor and every confidence threshold, 0 included,
\* every candidate parseYolo returns has a class index in 0 .. C-1, C being
\* the number of class-score attributes the branch taken scans (stride - 4,
\* or stride - 5 behind the objectness); none carries the initial -1.
C22_ValidClassId ==
  \A l \in Layouts :
    (Decoded(l) /\ ~parsed[l].threw) =>
      LET p == parsed[l]
          C == IF p.likelyV8V11 THEN p.stride - 4 ELSE p.stride - 5
      IN  \A j \in 1..Len(p.dets) : p.dets[j].cls \in 0..(C - 1)

(***************************************************************************)
(* The decoding loop of OnnxYoloSegDemo.jsx (runSegmentationOnImage and    *)
(* inferOneVideoFrame carry the same loop).  Values in 1/One.              *)
(***************************************************************************)
NUM_CLASSES == 80
CONF_THRESHOLD == 2
MaxSegAnchors == 3

\* detOut.data[idx]; an index past the end reads undefined, which compares
\* false with everything, as NaN does.
Seg_At(data, idx) == IF idx < Len(data) THEN data[idx + 1] ELSE NaN

\* let maxScore = -Infinity, clsId = -1; for (c = lo; c < hi; c++) { score =
\* data[base + 4 + c]; if (score > maxScore) { maxScore = score; clsId = c } }
\* from acc; clsId = -1 stands for maxScore = -Infinity.  The range is run as
\* its two halves, one after the other.
RECURSIVE Seg_ScanClasses(_, _, _, _, _)
Seg_ScanClasses(data, base, lo, hi, acc) ==
  IF lo >= hi THEN acc
  ELSE IF hi = lo + 1
    THEN LET score == Seg_At(data, base + 4 + lo)
         IN  IF ~IsNaN(score) /\ (acc.clsId = -1 \/ score > acc.maxScore)
               THEN [maxScore |-> score, clsId |-> lo] ELSE acc
    ELSE LET mid == (lo + hi) \div 2
             left == Seg_ScanClasses(data, base, lo, mid, acc)
         IN  IF left.clsId < hi THEN Seg_ScanClasses(data, base, mid, hi, left)
             ELSE left

\* detOut.data.slice(start, end)
Seg_slice(data, start, end) ==
  LET last == IF end < Len(data) THEN end ELSE Len(data)
  IN  IF last <= start THEN <<>> ELSE [j \in 1..(last - start) |-> data[start + j]]

\* One iteration of the anchor loop: what it pushes, if anything.
Seg_Anchor(data, nAttr, a) ==
  LET base == a * nAttr
      best == Seg_ScanClasses(data, base, 0, NUM_CLASSES, [maxScore |-> 0, clsId |-> -1])
  IN  IF best.clsId = -1 \/ best.maxScore < CONF_THRESHOLD
        THEN <<>>
        ELSE << [x |-> Seg_At(data, base + 0), y |-> Seg_At(data, base + 1),
                 w |-> Seg_At(data, base + 2), h |-> Seg_At(data, base + 3),
                 score |-> best.maxScore, clsId |-> best.clsId,
                 maskCoeffs |-> Seg_slice(data, base + 4 + NUM_CLASSES, base + nAttr)] >>

\* for (let a = lo; a < hi; a++) { ... dets.push(...) }, as its two halves.
RECURSIVE Seg_Collect(_, _, _, _)
Seg_Collect(data, nAttr, lo, hi) ==
  IF lo >= hi THEN <<>>
  ELSE IF hi = lo + 1 THEN Seg_Anchor(data, nAttr, lo)
  ELSE LET mid == (lo + hi) \div 2
       IN  Seg_Collect(data, nAttr, lo, mid) \o Seg_Collect(data, nAttr, mid, hi)

\* const [_, nAttr, nAnchors] = detOut.dims; the loop over the anchors.
Seg_decode(out) == Seg_Collect(out.data, out.dims[2], 0, out.dims[3])

\* <<x, y, w, h, 80 class scores, 2 mask coefficients>>: class c scores sc.
SegRow(x, y, w, c, sc, m) ==
  [k \in 1..(4 + NUM_CLASSES + 2) |->
     IF k = 1 THEN x
     ELSE IF k = 2 THEN y
     ELSE IF k \in {3, 4} THEN w
     ELSE IF k = 5 + c THEN sc
     ELSE IF k = 5 + NUM_CLASSES THEN m
     ELSE IF k = 6 + NUM_CLASSES THEN m + 1 ELSE 0]
SegRows == { SegRow(16, 20, 8, 79, 3, 5), SegRow(40, 8, 4, 0, 2, 1), SegRow(12, 28, 6, 17, 1, 7) }

\* The detection output of a segmentation model, shape [1, D, N]: attribute k
\* of anchor i is data[k*N + i].
SegTensors ==
  { [dims |-> <<1, NumAttrs([rows |-> m]), Len(m)>>, data |-> TransposedData([rows |-> m])] :
      m \in UNION { SeqsOf(SegRows, n) : n \in 1..MaxSegAnchors } }

SegCallers == {"image", "frame"}
SegPending == [done |-> FALSE, dets |-> <<>>]

InitSeg ==
  /\ detOut \in SegTensors
  /\ segDets = [c \in SegCallers |-> SegPending]

\* The decoding loop of runSegmentationOnImage.
Seg_decodeImage ==
  /\ ~segDets["image"].done
  /\ segDets' = [segDets EXCEPT !["image"] = [done |-> TRUE, dets |-> Seg_decode(detOut)]]
  /\ UNCHANGED <<logical, confThresh, parsed, detOut>>
  /\ UNCHANGED <<appVars, nmsVars, geoVars>>

\* The decoding loop of inferOneVideoFrame.
Seg_decodeFrame ==
  /\ ~segDets["frame"].done
  /\ segDets' = [segDets EXCEPT !["frame"] = [done |-> TRUE, dets |-> Seg_decode(detOut)]]
  /\ UNCHANGED <<logical, confThresh, parsed, detOut>>
  /\ UNCHANGED <<appVars, nmsVars, geoVars>>

NextSeg == Seg_decodeImage \/ Seg_decodeFrame

InitSpecSeg == IdleApp /\ IdleNms /\ IdleGeo /\ IdleYolo /\ InitSeg

SpecSeg == InitSpecSeg /\ [][NextSeg]_vars

\* Attribute k of anchor i of a [1, D, N] tensor: data[k*N + i].
TransposedAt(out, i, k) == out.data[k * out.dims[3] + i + 1]

\* The candidate of anchor i read through data[k*N + i]: the first maximum of
\* the class scores, and attributes 4+NUM_CLASSES .. D-1 as maskCoeffs.
TransposedCandidate(out, i) ==
  LET best == SetMax({ TransposedAt(out, i, 4 + c) : c \in 0..(NUM_CLASSES - 1) })
      first == CHOOSE c \in 0..(NUM_CLASSES - 1) :
                 /\ TransposedAt(out, i, 4 + c) = best
                 /\ \A e \in 0..(c - 1) : TransposedAt(out, i, 4 + e) < best
  IN  [x |-> TransposedAt(out, i, 0), y |-> TransposedAt(out, i, 1),
       w |-> TransposedAt(out, i, 2), h |-> TransposedAt(out, i, 3),
       score |-> best, clsId |-> first,
       maskCoeffs |-> [j \in 1..(out.dims[2] - 4 - NUM_CLASSES) |->
                         TransposedAt(out, i, 4 + NUM_CLASSES + j - 1)]]

TransposedDecode(out) ==
  LET AtOrAbove(i) == TransposedCandidate(out, i).score >= CONF_THRESHOLD
      kept == SelectSeq([i \in 1..out.dims[3] |-> i - 1], AtOrAbove)
  IN  [j \in 1..Len(kept) |-> TransposedCandidate(out, kept[j])]

\* C18: on a detection tensor of shape [1, D, N] the decoding loop of
\* runSegmentationOnImage and of inferOneVideoFrame reads attribute k of
\* anchor i from data[k*N + i], and the maskCoeffs of a candidate are that
\* anchor's attributes 4+NUM_CLASSES .. D-1 in order: the candidates built are
\* those of the anchors read that way.
C18_SegTransposedAccess ==
  \A c \in SegCallers :
    segDets[c].done => segDets[c].dets = TransposedDecode(detOut)

(***************************************************************************)
(* Part 3.  nonMaxSuppression (utils.js and OnnxYoloSegDemo.jsx).          *)
(*                                                                         *)
(* A candidate is a JavaScript object: its identity is the field id, its   *)
(* position in the list first handed to nonMaxSuppression.  The candidates  *)
(* of the detection pipeline are what parseYolo returns (fields x1, y1,    *)
(* x2, y2, score, cls); those of the segmentation pipeline carry x, y, w,  *)
(* h, score, clsId.  An IoU is the exact rational num/den.                 *)
(***************************************************************************)
MaxCandidates == 3
MaxKeep == 2
ThrDen == 20
DefaultMaxDet == 100
MAX_DET == 50
IOU_THRESHOLD == 9

Min2(a, b) == IF a < b THEN a ELSE b
Max2(a, b) == IF a > b THEN a ELSE b

\* utils.js iou(a, b) = inter / Math.max(1e-6, areaA + areaB - inter); areas
\* are in units of 1/(2*One)^2, of which 1e-6 is less than one.
iou(a, b) ==
  LET x1 == Max2(a.x1, b.x1)
      y1 == Max2(a.y1, b.y1)
      x2 == Min2(a.x2, b.x2)
      y2 == Min2(a.y2, b.y2)
      w == Max2(0, x2 - x1)
      h == Max2(0, y2 - y1)
      inter == w * h
      areaA == (a.x2 - a.x1) * (a.y2 - a.y1)
      areaB == (b.x2 - b.x1) * (b.y2 - b.y1)
      union == areaA + areaB - inter
  IN  IF union >= 1 THEN [num |-> inter, den |-> union, eps |-> FALSE]
      ELSE [num |-> inter * 1000000, den |-> 4 * One * One, eps |-> FALSE]

\* OnnxYoloSegDemo.jsx iou(a, b) = interArea / (areaA + areaB - interArea + 1e-9)
\* on centre boxes; corners are kept doubled (2x - w) so that they are exact.
\* eps marks the 1e-9 added to the denominator.
Seg_iou(a, b) ==
  LET boxA == <<2 * a.x - a.w, 2 * a.y - a.h, 2 * a.x + a.w, 2 * a.y + a.h>>
      boxB == <<2 * b.x - b.w, 2 * b.y - b.h, 2 * b.x + b.w, 2 * b.y + b.h>>
      interX1 == Max2(boxA[1], boxB[1])
      interY1 == Max2(boxA[2], boxB[2])
      interX2 == Min2(boxA[3], boxB[3])
      interY2 == Min2(boxA[4], boxB[4])
      interW == Max2(0, interX2 - interX1)
      interH == Max2(0, interY2 - interY1)
      interArea == interW * interH
      areaA == (boxA[3] - boxA[1]) * (boxA[4] - boxA[2])
      areaB == (boxB[3] - boxB[1]) * (boxB[4] - boxB[2])
  IN  [num |-> interArea, den |-> areaA + areaB - interArea, eps |-> TRUE]

\* r < thr/ThrDen.  With eps the denominator is den + 1e-9: for integers
\* num*ThrDen < thr*(den + 1e-9) iff thr > 0 and num*ThrDen <= thr*den.
Below(r, thr) ==
  IF r.eps
    THEN thr > 0 /\ r.num * ThrDen <= thr * r.den
    ELSE r.num * ThrDen < thr * r.den

\* det.clsId !== best.clsId: a candidate without the field reads undefined.
clsIdDiffers(det, best) ==
  LET has(d) == "clsId" \in DOMAIN d
  IN  IF has(det) /\ has(best) THEN det.clsId # best.clsId
      ELSE has(det) # has(best)

\* The filter callback: true keeps det.
Survives(which, best, det, thr) ==
  IF clsIdDiffers(det, best) THEN TRUE
  ELSE Below(IF which = "utils" THEN iou(best, det) ELSE Seg_iou(best, det), thr)

\* A filter that splices the array while it walks it, skipping the element
\* after each one it removes.
RECURSIVE Filter_SpliceWhileIterating(_, _, _, _)
Filter_SpliceWhileIterating(which, best, rest, thr) ==
  IF rest = <<>> THEN <<>>
  ELSE IF Survives(which, best, Head(rest), thr)
    THEN <<Head(rest)>> \o Filter_SpliceWhileIterating(which, best, Tail(rest), thr)
  ELSE IF Len(rest) >= 2
    THEN <<rest[2]>> \o Filter_SpliceWhileIterating(which, best, Tail(Tail(rest)), thr)
  ELSE <<>>

\* detections.filter(det => ...)
Filter(which, best, rest, thr) ==
  SelectSeq(rest, LAMBDA det : Survives(which, best, det, thr))

\* detections.sort((a, b) => b.score - a.score): stable, descending.
RECURSIVE SortByScore(_)
SortByScore(s) ==
  IF s = <<>> THEN <<>>
  ELSE LET x == s[Len(s)]
           t == SortByScore(SubSeq(s, 1, Len(s) - 1))
       IN  SelectSeq(t, LAMBDA d : d.score >= x.score) \o <<x>>
             \o SelectSeq(t, LAMBDA d : d.score < x.score)

\* A loop that runs once more when the limit is already reached.
LoopContinues_Inclusive(dets, kept, limit) == Len(dets) > 0 /\ Len(kept) <= limit

\* while (detections.length > 0 && keep.length < maxDet)
LoopContinues(dets, kept, limit) == Len(dets) > 0 /\ Len(kept) < limit

WithIds(dets) == [j \in 1..Len(dets) |-> [id |-> j] @@ dets[j]]

\* Anchors <<cx, cy, w, h, score of class 0, score of class 1>> the detection
\* pipeline decodes.  Boxes as corners, in coordinate units:
\*   A0, A1  (0,0)-(64,80), class 0 and class 1
\*   B0      (0,0)-(48,48), class 0: IoU with A is 2304/5120 = 0.45
\*   C0      (0,0)-(48,56), class 0: IoU with A is 2688/5120 = 0.525
\*   F0      (92,92)-(108,108), class 0, apart from the others
\*   E       scores 0, below the confidence threshold
NmsRows == { <<16, 20, 32, 40, 4, 1>>, <<16, 20, 32, 40, 1, 3>>,
             <<12, 12, 24, 24, 3, 0>>, <<12, 14, 24, 28, 2, 0>>,
             <<50, 50, 8, 8, 2, 1>>, <<50, 50, 8, 8, 0, 0>> }

NmsTensors ==
  { [dims |-> <<Len(m), 6>>,
     data |-> [j \in 1..(Len(m) * 6) |-> m[((j - 1) \div 6) + 1][((j - 1) % 6) + 1]]] :
      m \in UNION { SeqsOf(NmsRows, n) : n \in 1..MaxCandidates } }

\* Candidates as the segmentation decoder pushes them: the same boxes in
\* pixels, as centre and size.
SegDets ==
  { [x |-> 32, y |-> 40, w |-> 64, h |-> 80, score |-> 4, clsId |-> 0],
    [x |-> 32, y |-> 40, w |-> 64, h |-> 80, score |-> 3, clsId |-> 1],
    [x |-> 24, y |-> 24, w |-> 48, h |-> 48, score |-> 3, clsId |-> 0],
    [x |-> 24, y |-> 28, w |-> 48, h |-> 56, score |-> 2, clsId |-> 0],
    [x |-> 100, y |-> 100, w |-> 16, h |-> 16, score |-> 2, clsId |-> 0] }

\* Numerators over ThrDen.  The detection demo passes the threshold of its
\* number input (0.45 unless edited; 0.6 stands for an edited one) and leaves
\* maxDet to its default; utils.js exports the function, so that a caller may
\* pass any limit.  The segmentation demo passes its two constants.
IouThresholds(which) == IF which = "utils" THEN {IOU_THRESHOLD, 12} ELSE {IOU_THRESHOLD}

MaxDets(which) ==
  IF which = "utils" THEN (0..MaxKeep) \cup {DefaultMaxDet} ELSE {MAX_DET}

InitNms ==
  /\ nmsPc = "call"
  /\ impl \in {"utils", "seg"}
  /\ iouThreshold \in IouThresholds(impl)
  /\ maxDet \in MaxDets(impl)
  /\ pass = 1
  /\ IF impl = "utils"
       THEN /\ tensorIn \in NmsTensors
            /\ candidates = <<>>
       ELSE /\ tensorIn = <<>>
            /\ candidates \in { WithIds(m) :
                                  m \in UNION { SeqsOf(SegDets, n) : n \in 0..MaxCandidates } }
  /\ argArray = <<>>
  /\ detections = <<>>
  /\ keep = <<>>
  /\ out1 = <<>>

\* nonMaxSuppression(arr, iouThreshold, maxDet) up to the first test of the
\* loop condition: the early return on an empty list, the sort in place.
Enter(arr, nth) ==
  LET sorted == SortByScore(arr)
      goes == Len(arr) # 0 /\ LoopContinues(sorted, <<>>, maxDet)
  IN  /\ argArray' = sorted
      /\ detections' = sorted
      /\ keep' = <<>>
      /\ nmsPc' = IF goes THEN "loop" ELSE "done"
      /\ out1' = IF ~goes /\ nth = 1 THEN <<>> ELSE out1

\* App.js: nonMaxSuppression(parseYolo(out, confThreshold, inputSize), iouThreshold)
detect ==
  /\ nmsPc = "call" /\ impl = "utils" /\ pass = 1
  /\ LET dets == WithIds(parseYolo(tensorIn, DefaultConfThreshold, InputSize).dets)
     IN  /\ candidates' = dets
         /\ Enter(dets, 1)
  /\ UNCHANGED <<impl, tensorIn, iouThreshold, maxDet, pass>>
  /\ UNCHANGED <<appVars, parseVars, geoVars>>

\* OnnxYoloSegDemo.jsx: nonMaxSuppression(dets, IOU_THRESHOLD, MAX_DET)
segment ==
  /\ nmsPc = "call" /\ impl = "seg" /\ pass = 1
  /\ Enter(candidates, 1)
  /\ UNCHANGED <<impl, tensorIn, iouThreshold, maxDet, pass, candidates>>
  /\ UNCHANGED <<appVars, parseVars, geoVars>>

\* One iteration of the while loop: shift, push, filter, and the next test of
\* the loop condition (return keep when it fails).  The first shift is on the
\* caller's array; filter then rebinds detections to a new array.
iterate ==
  /\ nmsPc = "loop"
  /\ LET best == Head(detections)
         rest == Filter(impl, best, Tail(detections), iouThreshold)
         kept == Append(keep, best)
         goes == LoopContinues(rest, kept, maxDet)
     IN  /\ keep' = kept
         /\ detections' = rest
         /\ argArray' = IF keep = <<>> THEN Tail(argArray) ELSE argArray
         /\ nmsPc' = IF goes THEN "loop" ELSE "done"
         /\ out1' = IF ~goes /\ pass = 1 THEN kept ELSE out1
  /\ UNCHANGED <<impl, tensorIn, iouThreshold, maxDet, pass, candidates>>
  /\ UNCHANGED <<appVars, parseVars, geoVars>>

\* nonMaxSuppression applied to the array the first application returned.
reapply ==
  /\ nmsPc = "done" /\ pass = 1
  /\ pass' = 2
  /\ Enter(keep, 2)
  /\ UNCHANGED <<impl, tensorIn, iouThreshold, maxDet, candidates>>
  /\ UNCHANGED <<appVars, parseVars, geoVars>>

NextNms == detect \/ segment \/ iterate \/ reapply

InitSpecNMS == IdleApp /\ IdleParse /\ IdleGeo /\ InitNms

SpecNMS == InitSpecNMS /\ [][NextNms]_vars

(***************************************************************************)
(* Claims about nonMaxSuppression (SpecNMS).                               *)
(***************************************************************************)
\* The class a candidate was decoded with, whatever the field is called.
ClassOf(d) == IF "clsId" \in DOMAIN d THEN d.clsId ELSE d.cls

Ids(q) == { q[j].id : j \in 1..Len(q) }

\* The IoU of two candidates as an exact fraction of positive denominator.
ExactIoU(which, a, b) == IF which = "utils" THEN iou(a, b) ELSE Seg_iou(a, b)

\* C3: in the detection pipeline (candidates decoded by parseYolo), an
\* iteration of the suppression loop never removes a candidate whose class
\* differs from the class of the candidate it popped, whatever their IoU.
C3_ClassIsolation ==
  [][(impl = "utils" /\ nmsPc = "loop")
       => \A j \in 2..Len(detections) :
            ClassOf(detections[j]) # ClassOf(detections[1])
              => detections[j].id \in Ids(detections')]_vars

\* C4: in an iteration of the suppression loop, a remaining candidate of the
\* popped candidate's class is kept when their IoU equals the threshold and
\* removed when their IoU is greater than the threshold.
C4_ThresholdBoundary ==
  [][nmsPc = "loop"
       => \A j \in 2..Len(detections) :
            LET r == ExactIoU(impl, detections[1], detections[j])
            IN  (ClassOf(detections[j]) = ClassOf(detections[1]) /\ r.den > 0)
                  => /\ r.num * ThrDen = iouThreshold * r.den
                          => detections[j].id \in Ids(detections')
                     /\ r.num * ThrDen > iouThreshold * r.den
                          => detections[j].id \notin Ids(detections')]_vars

\* C5: nonMaxSuppression applied to the list it returned, with the same
\* threshold and limit, returns the same detections in the same order.
C5_Idempotence ==
  (nmsPc = "done" /\ pass = 2) => keep = out1

\* C5 witness: a first application that removed candidates and kept at least
\* two, and a finished second application.
C5_Witness ==
  /\ nmsPc = "done" /\ pass = 2
  /\ Len(out1) >= 2
  /\ Len(candidates) > Len(out1)
  /\ Len(detections) = 0
  /\ keep = out1

\* C6: the kept list is a duplicate-free sub-collection of the input
\* candidates, in non-increasing score order, of length at most maxDet; the
\* loop goes on exactly while candidates remain and fewer than maxDet are
\* kept, and returns otherwise.
C6_KeptList ==
  nmsPc \in {"loop", "done"} =>
    /\ \A i, j \in 1..Len(keep) : i # j => keep[i].id # keep[j].id
    /\ \A i \in 1..Len(keep) :
         /\ keep[i].id \in 1..Len(candidates)
         /\ keep[i] = candidates[keep[i].id]
    /\ \A i \in 1..(Len(keep) - 1) : keep[i].score >= keep[i + 1].score
    /\ Len(keep) <= maxDet
    /\ nmsPc = "loop" => (Len(detections) > 0 /\ Len(keep) < maxDet)
    /\ nmsPc = "done" => (Len(detections) = 0 \/ Len(keep) >= maxDet)

\* C6 witness: the detection pipeline's first application returned because
\* the limit was reached while candidates remained.
C6_Witness ==
  /\ nmsPc = "done" /\ pass = 1 /\ impl = "utils"
  /\ Len(keep) = maxDet
  /\ Len(keep) >= 2
  /\ Len(detections) > 0

(***************************************************************************)
(* Part 4.  letterbox (utils.js, utils_keys.js) and the inverse mapping    *)
(* in drawDetectionsOnSource and drawYoloSegMasksCropped.                  *)
(*                                                                         *)
(* A fraction is the exact rational [n, d] in lowest terms, d > 0: the     *)
(* floats of the code without their rounding error.  Pixel sizes and pads  *)
(* are integers; dw and dh, which the code does not floor, are kept        *)
(* doubled.                                                                *)
(***************************************************************************)
MaxSide == 5

Abs(a) == IF a < 0 THEN -a ELSE a

RECURSIVE GCD(_, _)
GCD(a, b) == IF b = 0 THEN a ELSE GCD(b, a % b)

Q(n, d) ==
  LET g == GCD(Abs(n), d)
  IN  [n |-> n \div g, d |-> d \div g]

QLess(a, b) == a.n * b.d < b.n * a.d
\* Math.min(a, b), Math.max(a, b)
QMin(a, b) == IF QLess(b, a) THEN b ELSE a
QMax(a, b) == IF QLess(a, b) THEN b ELSE a
QSub(a, b) == Q(a.n * b.d - b.n * a.d, a.d * b.d)
QAdd(a, b) == Q(a.n * b.d + b.n * a.d, a.d * b.d)
QMul(a, b) == Q(a.n * b.n, a.d * b.d)
\* a / b for b > 0
QDiv(a, b) == Q(a.n * b.d, a.d * b.n)
\* Math.floor, Math.ceil and Math.round (halves go up) of a fraction
Floor(q) == q.n \div q.d
Ceil(q) == -((-q.n) \div q.d)
Round(q) == (2 * q.n + q.d) \div (2 * q.d)

\* letterbox with the padding rounded up.
letterbox_CeilPad(iw, ih, size) ==
  LET scale == QMin(Q(size, iw), Q(size, ih))
      nw == Round(QMul(Q(iw, 1), scale))
      nh == Round(QMul(Q(ih, 1), scale))
  IN  [canvas |-> [width |-> size, height |-> size], scale |-> scale,
       padLeft |-> Ceil(Q(size - nw, 2)), padTop |-> Ceil(Q(size - nh, 2)),
       nw |-> nw, nh |-> nh]

\* utils.js letterbox(imageOrCanvas, newSize): the object returned.
letterbox(iw, ih, size) ==
  LET scale == QMin(Q(size, iw), Q(size, ih))
      nw == Round(QMul(Q(iw, 1), scale))
      nh == Round(QMul(Q(ih, 1), scale))
      padW == size - nw
      padH == size - nh
      padLeft == Floor(Q(padW, 2))
      padTop == Floor(Q(padH, 2))
  IN  [canvas |-> [width |-> size, height |-> size], scale |-> scale,
       padLeft |-> padLeft, padTop |-> padTop, nw |-> nw, nh |-> nh]

\* utils_keys.js letterbox(source, newSize): the object returned, and the
\* rectangle it draws the source into (dx, dy, nw, nh).
Keys_letterbox(iw, ih, size) ==
  LET scale == QMin(Q(size, iw), Q(size, ih))
      nw == Round(QMul(Q(iw, 1), scale))
      nh == Round(QMul(Q(ih, 1), scale))
      dx == Floor(Q(size - nw, 2))
      dy == Floor(Q(size - nh, 2))
  IN  [returned |-> [canvas |-> [width |-> size, height |-> size], ratio |-> scale,
                     padX |-> dx, padY |-> dy],
       drawn |-> [dx |-> dx, dy |-> dy, nw |-> nw, nh |-> nh]]

\* The corners with the padding left in place.
drawDetectionsOnSource_PadKept(d, map, canvasW, canvasH) ==
  [x1 |-> QMax(Q(0, 1), QDiv(d.x1, map.scale)),
   y1 |-> QMax(Q(0, 1), QDiv(d.y1, map.scale)),
   x2 |-> QMin(Q(canvasW, 1), QDiv(d.x2, map.scale)),
   y2 |-> QMin(Q(canvasH, 1), QDiv(d.y2, map.scale))]

\* drawDetectionsOnSource: the corners x1, y1, x2, y2 of the rectangle drawn
\* for detection d; canvasW x canvasH is the source size.
drawDetectionsOnSource(d, map, canvasW, canvasH) ==
  [x1 |-> QMax(Q(0, 1), QDiv(QSub(d.x1, Q(map.padLeft, 1)), map.scale)),
   y1 |-> QMax(Q(0, 1), QDiv(QSub(d.y1, Q(map.padTop, 1)), map.scale)),
   x2 |-> QMin(Q(canvasW, 1), QDiv(QSub(d.x2, Q(map.padLeft, 1)), map.scale)),
   y2 |-> QMin(Q(canvasH, 1), QDiv(QSub(d.y2, Q(map.padTop, 1)), map.scale))]

\* drawYoloSegMasksCropped: inputW, inputH, ratio, dw, dh as it takes them from
\* the mapping object, with its fallbacks for the fields the object lacks
\* (lb?.ratio ?? ..., lb?.dw ?? ...).  dw2 and dh2 are 2*dw and 2*dh.
InverseParams(map, srcW, srcH) ==
  LET inputW == map.canvas.width
      inputH == map.canvas.height
      ratio == IF "ratio" \in DOMAIN map THEN map.ratio
               ELSE QMin(Q(inputW, srcW), Q(inputH, srcH))
      newUnpaddedW == Round(QMul(Q(srcW, 1), ratio))
      newUnpaddedH == Round(QMul(Q(srcH, 1), ratio))
  IN  [inputW |-> inputW, inputH |-> inputH, ratio |-> ratio,
       dw2 |-> IF "dw" \in DOMAIN map THEN 2 * map.dw ELSE inputW - newUnpaddedW,
       dh2 |-> IF "dh" \in DOMAIN map THEN 2 * map.dh ELSE inputH - newUnpaddedH]

\* The crop window without the lower bound on the origin's distance to the
\* far edge: the width is only capped at pW - sx.
CropWindow_Unclamped(d, inputW, inputH, pW, pH) ==
  LET x1 == d.x - (d.w \div 2)
      y1 == d.y - (d.h \div 2)
      sx == Floor(Q(x1 * pW, inputW))
      sy == Floor(Q(y1 * pH, inputH))
  IN  [sx |-> sx, sy |-> sy,
       sw |-> Min2(pW - sx, Ceil(Q(d.w * pW, inputW))),
       sh |-> Min2(pH - sy, Ceil(Q(d.h * pH, inputH)))]

\* drawYoloSegMasksCropped: the crop window in proto space of detection d
\* (centre x, y and even sizes w, h, so that x - w/2 is an integer).
CropWindow(d, inputW, inputH, pW, pH) ==
  LET x1 == d.x - (d.w \div 2)
      y1 == d.y - (d.h \div 2)
      sx == Max2(0, Floor(Q(x1 * pW, inputW)))
      sy == Max2(0, Floor(Q(y1 * pH, inputH)))
  IN  [sx |-> sx, sy |-> sy,
       sw |-> Max2(1, Min2(pW - sx, Ceil(Q(d.w * pW, inputW)))),
       sh |-> Max2(1, Min2(pH - sy, Ceil(Q(d.h * pH, inputH))))]

\* Source sizes: every size up to MaxSide, the 1280x720 frame of the
\* documentation, and a 640x481 image (an odd padding).
SourceSizes ==
  { <<w, h>> : w \in 1..MaxSide, h \in 1..MaxSide } \cup { <<1280, 720>>, <<640, 481>> }

NewSizes == {4, 8, 640}

\* Extents <<lo, hi>> of a kept box along one axis of the model input of size
\* S: inside, empty, across either edge, and beyond the far edge.
Extents(S) ==
  { <<0, 0>>, <<0, 2>>, <<1, 3>>, <<-2, 2>>, <<S - 2, S + 2>>, <<S, S + 2>>,
    <<S + 2, S + 4>> }
  \cup (IF S = 640 THEN { <<100, 300>>, <<140, 340>>, <<520, 600>> } ELSE {})

\* Boxes {x1, y1, x2, y2} as parseYolo builds them.
Boxes(S) ==
  { [x1 |-> Q(ex[1], 1), y1 |-> Q(ey[1], 1), x2 |-> Q(ex[2], 1), y2 |-> Q(ey[2], 1)] :
      ex \in Extents(S), ey \in Extents(S) }

\* A point of the source as the letterbox mapping places it in the model
\* input: x*scale + padLeft, y*scale + padTop.
MapX(x, map) == QAdd(QMul(Q(x, 1), map.scale), Q(map.padLeft, 1))
MapY(y, map) == QAdd(QMul(Q(y, 1), map.scale), Q(map.padTop, 1))

\* Points along a side of length len: the ends and the middle.
SidePoints(len) == {0, len \div 2, len}

\* Boxes whose corners are points of the source, mapped into the model input.
MappedBoxes(src, map) ==
  { [x1 |-> MapX(px, map), y1 |-> MapY(py, map), x2 |-> MapX(qx, map), y2 |-> MapY(qy, map)] :
      px \in SidePoints(src[1]), qx \in SidePoints(src[1]),
      py \in SidePoints(src[2]), qy \in SidePoints(src[2]) } \cap
  { b \in [x1 : { MapX(x, map) : x \in SidePoints(src[1]) },
           y1 : { MapY(y, map) : y \in SidePoints(src[2]) },
           x2 : { MapX(x, map) : x \in SidePoints(src[1]) },
           y2 : { MapY(y, map) : y \in SidePoints(src[2]) }] :
      ~QLess(b.x2, b.x1) /\ ~QLess(b.y2, b.y1) }

\* Detections {x, y, w, h} as the segmentation decoder builds them.
SegBoxes(S) ==
  { [x |-> (ex[1] + ex[2]) \div 2, y |-> (ey[1] + ey[2]) \div 2,
     w |-> ex[2] - ex[1], h |-> ey[2] - ey[1]] :
      ex \in Extents(S), ey \in Extents(S) }

\* The prototype masks are a quarter of the model input on each side.
ProtoSize(S) == Max2(1, S \div 4)

InitGeo ==
  /\ geoPc = "frame"
  /\ path \in {"det", "seg", "keys"}
  /\ source \in SourceSizes
  /\ newSize \in NewSizes
  /\ lb = <<>>
  /\ keptDet = <<>>
  /\ unmapped = <<>>
  /\ inverse = <<>>
  /\ crop = <<>>

\* const lb = letterbox(img, inputSize), in both demos.
letterboxFrame ==
  /\ geoPc = "frame" /\ path \in {"det", "seg"}
  /\ lb' = letterbox(source[1], source[2], newSize)
  /\ geoPc' = "mapped"
  /\ UNCHANGED <<path, source, newSize, keptDet, unmapped, inverse, crop>>
  /\ UNCHANGED <<appVars, nmsVars, parseVars>>

\* utils_keys.js letterbox(source, newSize)
Keys_letterboxFrame ==
  /\ geoPc = "frame" /\ path = "keys"
  /\ lb' = Keys_letterbox(source[1], source[2], newSize)
  /\ geoPc' = "mapped"
  /\ UNCHANGED <<path, source, newSize, keptDet, unmapped, inverse, crop>>
  /\ UNCHANGED <<appVars, nmsVars, parseVars>>

\* drawDetectionsOnSource(kept, img, lb, canvas) for one kept detection.
drawDetections ==
  /\ geoPc = "mapped" /\ path = "det"
  /\ \E d \in Boxes(newSize) \cup MappedBoxes(source, lb) :
       /\ keptDet' = d
       /\ unmapped' = drawDetectionsOnSource(d, lb, source[1], source[2])
  /\ geoPc' = "drawn"
  /\ UNCHANGED <<path, source, newSize, lb, inverse, crop>>
  /\ UNCHANGED <<appVars, nmsVars, parseVars>>

\* drawYoloSegMasksCropped(kept, masks, lb, img, canvas) for one kept
\* detection.
drawMasks ==
  /\ geoPc = "mapped" /\ path = "seg"
  /\ \E d \in SegBoxes(newSize) :
       LET inv == InverseParams(lb, source[1], source[2])
       IN  /\ keptDet' = d
           /\ inverse' = inv
           /\ crop' = CropWindow(d, inv.inputW, inv.inputH,
                                 ProtoSize(newSize), ProtoSize(newSize))
  /\ geoPc' = "drawn"
  /\ UNCHANGED <<path, source, newSize, lb, unmapped>>
  /\ UNCHANGED <<appVars, nmsVars, parseVars>>

NextGeo == letterboxFrame \/ Keys_letterboxFrame \/ drawDetections \/ drawMasks

InitSpecGeo == IdleApp /\ IdleNms /\ IdleParse /\ InitGeo

SpecGeo == InitSpecGeo /\ [][NextGeo]_vars

(***************************************************************************)
(* Claims about the letterbox mapping and its inverse (SpecGeo).           *)
(***************************************************************************)
\* C12: the scale and the left and top padding the inverse path uses for the
\* mapping object letterbox returned are the scale, padLeft and padTop that
\* letterbox computed for the frame.
C12_PaddingSymmetry ==
  (geoPc = "drawn" /\ path = "seg")
    => /\ inverse.ratio = lb.scale
       /\ inverse.dw2 = 2 * lb.padLeft
       /\ inverse.dh2 = 2 * lb.padTop

QClamp(q, lo, hi) == QMin(Q(hi, 1), QMax(Q(lo, 1), q))

\* C13: each corner drawn for a kept box is (v - pad) / scale clamped into
\* [0, source width] for x and [0, source height] for y.
C13_Unmapping ==
  (geoPc = "drawn" /\ path = "det")
    => LET ux(v) == QClamp(QDiv(QSub(v, Q(lb.padLeft, 1)), lb.scale), 0, source[1])
           uy(v) == QClamp(QDiv(QSub(v, Q(lb.padTop, 1)), lb.scale), 0, source[2])
       IN  /\ unmapped.x1 = ux(keptDet.x1)
           /\ unmapped.y1 = uy(keptDet.y1)
           /\ unmapped.x2 = ux(keptDet.x2)
           /\ unmapped.y2 = uy(keptDet.y2)

QWithinOne(q, x) == ~QLess(Q(x + 1, 1), q) /\ ~QLess(q, Q(x - 1, 1))

Placement ==
  IF path = "keys"
    THEN [scale |-> lb.returned.ratio, nw |-> lb.drawn.nw, nh |-> lb.drawn.nh,
          padLeft |-> lb.returned.padX, padTop |-> lb.returned.padY]
    ELSE [scale |-> lb.scale, nw |-> lb.nw, nh |-> lb.nh,
          padLeft |-> lb.padLeft, padTop |-> lb.padTop]

\* r is v rounded to the nearest integer, halves up.
IsRound(r, v) == ~QLess(v, Q(2 * r - 1, 2)) /\ QLess(v, Q(2 * r + 1, 2))

\* C15: both letterbox implementations give scale = min(S/width, S/height),
\* scaled sizes round(width*scale) and round(height*scale), pads
\* floor((S - scaled size)/2), and the scaled image lies inside the S x S
\* canvas; for S = 640 and a 1280x720 source: 0.5, 640x360, 0 and 140.
C15_LetterboxMapping ==
  geoPc \in {"mapped", "drawn"} =>
    LET m == Placement
        S == newSize
    IN  /\ m.scale = Q(S, Max2(source[1], source[2]))
        /\ IsRound(m.nw, Q(source[1] * S, Max2(source[1], source[2])))
        /\ IsRound(m.nh, Q(source[2] * S, Max2(source[1], source[2])))
        /\ 2 * m.padLeft <= S - m.nw /\ S - m.nw <= 2 * m.padLeft + 1
        /\ 2 * m.padTop <= S - m.nh /\ S - m.nh <= 2 * m.padTop + 1
        /\ 0 <= m.padLeft /\ m.padLeft + m.nw <= S
        /\ 0 <= m.padTop /\ m.padTop + m.nh <= S
        /\ (source = <<1280, 720>> /\ S = 640)
             => m = [scale |-> Q(1, 2), nw |-> 640, nh |-> 360,
                     padLeft |-> 0, padTop |-> 140]

\* C15 witness: the 640x481 image letterboxed into 640 by utils.js: the
\* padding of 159 rows is split 79 above.
C15_Witness ==
  /\ geoPc = "mapped" /\ path = "det"
  /\ source = <<640, 481>> /\ newSize = 640
  /\ lb.nh = 481 /\ lb.padTop = 79

\* C16: the crop window of every kept detection has sw >= 1, sh >= 1,
\* 0 <= sx, 0 <= sy, sx + sw <= protoWidth and sy + sh <= protoHeight.
C16_CropWindow ==
  (geoPc = "drawn" /\ path = "seg")
    => /\ crop.sw >= 1 /\ crop.sh >= 1
       /\ 0 <= crop.sx /\ 0 <= crop.sy
       /\ crop.sx + crop.sw <= ProtoSize(newSize)
       /\ crop.sy + crop.sh <= ProtoSize(newSize)

====
